---- MODULE Spec2Model ----
(***************************************************************************)
(* Model of scripts/generate_lorem.py: character-budgeted lorem-ipsum text *)
(* generation (distribute_chars, gen_paragraph, gen_title), Markdown       *)
(* rendering (render_markdown, with textwrap.fill as it is called there)   *)
(* and the pipeline of main.                                               *)
(*                                                                         *)
(* A Python str is modelled as a sequence of one-character strings, so     *)
(* that lengths, slices, joins and line breaks are computed, not assumed.  *)
(***************************************************************************)
EXTENDS Integers, Sequences, FiniteSets, TLC

VARIABLES rng, gt, gp, dc, rm, mn

vars == <<rng, gt, gp, dc, rm, mn>>

---------------------------------------------------------------------------
(* Bounds of the model (not program constants).                            *)

\* seeds 0..MaxSeed are the integer seeds a configuration may carry
MaxSeed == 2
\* an rng of unknown state draws pool words LOREM_WORDS[FirstChoice ..
\* FirstChoice + NumChoices - 1] only; a seeded rng draws from the whole pool
FirstChoice == 3
NumChoices == 2
\* gen_title is called with char_count in -1 .. MaxTitleChars
MaxTitleChars == 12
\* gen_paragraph is called with target_chars in -1 .. MaxSmallTarget, and
\* with LongTarget (long enough for a sentence to end inside the loop)
MaxSmallTarget == 7
LongTarget == 34
\* distribute_chars is called with total_chars in 0 .. MaxTotalChars and
\* paragraphs in -1 .. MaxParagraphs
MaxTotalChars == 12
MaxParagraphs == 6
\* render_markdown is called with at most MaxRenderParagraphs paragraphs of
\* at most MaxTextLen characters together, and max_line_len in 1 .. MaxLineLen
MaxRenderParagraphs == 2
MaxTextLen == 7
MaxLineLen == 4
\* main: settings carry characters in -1 .. MaxCharacters, paragraphs in
\* -1 .. MaxSettingsParagraphs, title_characters in -1 .. MaxSettingsTitle
MaxCharacters == 45
MaxSettingsParagraphs == 5
MaxSettingsTitle == 12

---------------------------------------------------------------------------
(* Strings.                                                                *)

Min(a, b) == IF a < b THEN a ELSE b
Max(a, b) == IF a > b THEN a ELSE b

LowerCase == <<"a", "b", "c", "d", "e", "f", "g", "h", "i", "j", "k", "l", "m",
               "n", "o", "p", "q", "r", "s", "t", "u", "v", "w", "x", "y", "z">>
UpperCase == <<"A", "B", "C", "D", "E", "F", "G", "H", "I", "J", "K", "L", "M",
               "N", "O", "P", "Q", "R", "S", "T", "U", "V", "W", "X", "Y", "Z">>

\* str.upper() and str.lower() of one character
Upper(c) ==
    IF \E i \in 1..26 : LowerCase[i] = c
    THEN UpperCase[CHOOSE i \in 1..26 : LowerCase[i] = c]
    ELSE c
Lower(c) ==
    IF \E i \in 1..26 : UpperCase[i] = c
    THEN LowerCase[CHOOSE i \in 1..26 : UpperCase[i] = c]
    ELSE c

\* str.capitalize(): first character upper-cased, the rest lower-cased
Capitalize(w) ==
    [i \in 1..Len(w) |-> IF i = 1 THEN Upper(w[i]) ELSE Lower(w[i])]

\* sep.join(parts) for a sequence of strings
RECURSIVE Join(_, _)
Join(sep, parts) ==
    IF parts = <<>> THEN <<>>
    ELSE IF Len(parts) = 1 THEN parts[1]
    ELSE parts[1] \o sep \o Join(sep, Tail(parts))

IsSpace(c) == c \in {" ", "\n", "\t"}

\* s.rstrip() and s.strip()
RECURSIVE RStrip(_)
RStrip(s) ==
    IF s # <<>> /\ IsSpace(s[Len(s)]) THEN RStrip(SubSeq(s, 1, Len(s) - 1)) ELSE s
RECURSIVE LStrip(_)
LStrip(s) ==
    IF s # <<>> /\ IsSpace(s[1]) THEN LStrip(Tail(s)) ELSE s
Strip(s) == LStrip(RStrip(s))

\* s[:n] for n >= 0
Prefix(s, n) == SubSeq(s, 1, Min(n, Len(s)))
\* s[n:] for n >= 0
Suffix(s, n) == SubSeq(s, Min(n, Len(s)) + 1, Len(s))

\* s.endswith(".")
EndsWithPeriod(s) == s # <<>> /\ s[Len(s)] = "."

\* s.split("\n"): the lines of a document
RECURSIVE SplitLines(_)
SplitLines(s) ==
    IF \E i \in 1..Len(s) : s[i] = "\n"
    THEN LET k == CHOOSE i \in 1..Len(s) : s[i] = "\n" /\ \A j \in 1..(i-1) : s[j] # "\n"
         IN  <<SubSeq(s, 1, k - 1)>> \o SplitLines(SubSeq(s, k + 1, Len(s)))
    ELSE <<s>>

\* s.split(): the words of a string (maximal runs of non-space characters)
RECURSIVE Words(_)
Words(s) ==
    LET t == LStrip(s) IN
    IF t = <<>> THEN <<>>
    ELSE LET k == IF \E i \in 1..Len(t) : IsSpace(t[i])
                  THEN (CHOOSE i \in 1..Len(t) : IsSpace(t[i]) /\ \A j \in 1..(i-1) : ~IsSpace(t[j])) - 1
                  ELSE Len(t)
         IN  <<SubSeq(t, 1, k)>> \o Words(SubSeq(t, k + 1, Len(t)))

RECURSIVE Sum(_)
Sum(s) == IF s = <<>> THEN 0 ELSE s[1] + Sum(Tail(s))

---------------------------------------------------------------------------
(* The word pool.                                                          *)

LOREM_WORDS == <<
    <<"l", "o", "r", "e", "m">>,
    <<"i", "p", "s", "u", "m">>,
    <<"d", "o", "l", "o", "r">>,
    <<"s", "i", "t">>,
    <<"a", "m", "e", "t">>,
    <<"c", "o", "n", "s", "e", "c", "t", "e", "t", "u", "r">>,
    <<"a", "d", "i", "p", "i", "s", "c", "i", "n", "g">>,
    <<"e", "l", "i", "t">>,
    <<"s", "e", "d">>,
    <<"d", "o">>,
    <<"e", "i", "u", "s", "m", "o", "d">>,
    <<"t", "e", "m", "p", "o", "r">>,
    <<"i", "n", "c", "i", "d", "i", "d", "u", "n", "t">>,
    <<"u", "t">>,
    <<"l", "a", "b", "o", "r", "e">>,
    <<"e", "t">>,
    <<"d", "o", "l", "o", "r", "e">>,
    <<"m", "a", "g", "n", "a">>,
    <<"a", "l", "i", "q", "u", "a">>,
    <<"u", "t">>,
    <<"e", "n", "i", "m">>,
    <<"a", "d">>,
    <<"m", "i", "n", "i", "m">>,
    <<"v", "e", "n", "i", "a", "m">>,
    <<"q", "u", "i", "s">>,
    <<"n", "o", "s", "t", "r", "u", "d">>,
    <<"e", "x", "e", "r", "c", "i", "t", "a", "t", "i", "o", "n">>,
    <<"u", "l", "l", "a", "m", "c", "o">>,
    <<"l", "a", "b", "o", "r", "i", "s">>,
    <<"n", "i", "s", "i">>,
    <<"u", "t">>,
    <<"a", "l", "i", "q", "u", "i", "p">>,
    <<"e", "x">>,
    <<"e", "a">>,
    <<"c", "o", "m", "m", "o", "d", "o">>,
    <<"c", "o", "n", "s", "e", "q", "u", "a", "t">>,
    <<"d", "u", "i", "s">>,
    <<"a", "u", "t", "e">>,
    <<"i", "r", "u", "r", "e">>,
    <<"d", "o", "l", "o", "r">>,
    <<"i", "n">>,
    <<"r", "e", "p", "r", "e", "h", "e", "n", "d", "e", "r", "i", "t">>,
    <<"i", "n">>,
    <<"v", "o", "l", "u", "p", "t", "a", "t", "e">>,
    <<"v", "e", "l", "i", "t">>,
    <<"e", "s", "s", "e">>,
    <<"c", "i", "l", "l", "u", "m">>,
    <<"d", "o", "l", "o", "r", "e">>,
    <<"e", "u">>,
    <<"f", "u", "g", "i", "a", "t">>,
    <<"n", "u", "l", "l", "a">>,
    <<"p", "a", "r", "i", "a", "t", "u", "r">>,
    <<"e", "x", "c", "e", "p", "t", "e", "u", "r">>,
    <<"s", "i", "n", "t">>,
    <<"o", "c", "c", "a", "e", "c", "a", "t">>,
    <<"c", "u", "p", "i", "d", "a", "t", "a", "t">>,
    <<"n", "o", "n">>,
    <<"p", "r", "o", "i", "d", "e", "n", "t">>,
    <<"s", "u", "n", "t">>,
    <<"i", "n">>,
    <<"c", "u", "l", "p", "a">>,
    <<"q", "u", "i">>,
    <<"o", "f", "f", "i", "c", "i", "a">>,
    <<"d", "e", "s", "e", "r", "u", "n", "t">>,
    <<"m", "o", "l", "l", "i", "t">>,
    <<"a", "n", "i", "m">>,
    <<"i", "d">>,
    <<"e", "s", "t">>,
    <<"l", "a", "b", "o", "r", "u", "m">>
>>

---------------------------------------------------------------------------
(* random.Random.  The generator is a state (advanced by every draw) and a *)
(* count of the draws consumed.  A generator built from a seed is          *)
(* deterministic: its stream is a function of the seed (a linear           *)
(* congruential stream stands for the Mersenne Twister).  A generator      *)
(* handed in by an unknown caller is in an unknown state: each of its      *)
(* draws may be any value of the range.                                    *)

Advance(s) == (s * 75 + 74) % 65537

\* random.Random(seed) for an integer seed
Random(seed) == [known |-> TRUE, state |-> seed, used |-> 0]
\* a generator whose state is not known
UnknownRng == [known |-> FALSE, state |-> 0, used |-> 0]

ChoiceWindow ==
    {i \in 1..Len(LOREM_WORDS) : i >= FirstChoice /\ i < FirstChoice + NumChoices}

\* one draw below n: the set of possible <<value, generator after the draw>>
RandBelow(r, n) ==
    IF r.known
    THEN LET s == Advance(r.state)
         IN  {<<s % n, [r EXCEPT !.state = s, !.used = @ + 1]>>}
    ELSE {<<v, [r EXCEPT !.used = @ + 1]>> : v \in 0..(n - 1)}

\* rng.randint(a, b)
RandInt(r, a, b) == {<<a + d[1], d[2]>> : d \in RandBelow(r, b - a + 1)}

\* rng.choice(LOREM_WORDS)
Choice(r) ==
    IF r.known
    THEN {<<LOREM_WORDS[d[1] + 1], d[2]>> : d \in RandBelow(r, Len(LOREM_WORDS))}
    ELSE {<<LOREM_WORDS[i], [r EXCEPT !.used = @ + 1]>> : i \in ChoiceWindow}

---------------------------------------------------------------------------
(* gen_title(char_count, rng)                                              *)

GtIdle == [pc |-> "idle", char_count |-> 0, words |-> <<>>, result |-> <<>>]
GtCall(char_count) == [GtIdle EXCEPT !.pc = "entry", !.char_count = char_count]

\* the loop condition: len(" ".join(words)) < char_count
GtContinue(words, char_count) == Len(Join(<<" ">>, words)) < char_count

\* the word appended by one iteration
GtWord(words, w) == IF words = <<>> THEN Capitalize(w) ELSE w

\* mutant: the joined words are not truncated
GtTitle_NoTruncate(words, char_count) == Strip(RStrip(Join(<<" ">>, words)))

\* " ".join(words)[:char_count].rstrip(), then .strip()
GtTitle(words, char_count) ==
    Strip(RStrip(Prefix(Join(<<" ">>, words), char_count)))

GtEntry ==
    /\ gt.pc = "entry"
    /\ gt' = IF gt.char_count <= 0
             THEN [gt EXCEPT !.pc = "returned", !.result = <<>>]
             ELSE [gt EXCEPT !.pc = "loop", !.words = <<>>]
    /\ UNCHANGED <<rng, gp, dc, rm, mn>>

GtLoop ==
    /\ gt.pc = "loop"
    /\ GtContinue(gt.words, gt.char_count)
    /\ \E c \in Choice(rng) :
          /\ gt' = [gt EXCEPT !.words = Append(@, GtWord(gt.words, c[1]))]
          /\ rng' = c[2]
    /\ UNCHANGED <<gp, dc, rm, mn>>

GtExit ==
    /\ gt.pc = "loop"
    /\ ~GtContinue(gt.words, gt.char_count)
    /\ gt' = [gt EXCEPT !.pc = "returned",
                        !.result = GtTitle(gt.words, gt.char_count)]
    /\ UNCHANGED <<rng, gp, dc, rm, mn>>

---------------------------------------------------------------------------
(* gen_paragraph(target_chars, rng)                                        *)

GpIdle == [pc |-> "idle", target_chars |-> 0, words |-> <<>>, char_len |-> 0,
           sentence_len |-> 0, words_in_sentence |-> 0, result |-> <<>>]
GpCall(target_chars) == [GpIdle EXCEPT !.pc = "entry", !.target_chars = target_chars]

\* the early return: target_chars <= 0
GpEmpty(target_chars) == target_chars <= 0

\* mutant: the first sentence length is drawn before the early return
GpEnter_DrawFirst(f, r) ==
    {<<IF f.target_chars <= 0
       THEN [f EXCEPT !.pc = "returned", !.result = <<>>]
       ELSE [f EXCEPT !.pc = "loop", !.words = <<>>, !.char_len = 0,
                      !.sentence_len = d[1], !.words_in_sentence = 0], d[2]>>
       : d \in RandInt(r, 8, 16)}

\* entry: the set of possible <<frame, generator>> after lines 59-64
GpEnter(f, r) ==
    IF GpEmpty(f.target_chars)
    THEN {<<[f EXCEPT !.pc = "returned", !.result = <<>>], r>>}
    ELSE {<<[f EXCEPT !.pc = "loop", !.words = <<>>, !.char_len = 0,
                      !.sentence_len = d[1], !.words_in_sentence = 0], d[2]>>
            : d \in RandInt(r, 8, 16)}

\* mutant: the loop also runs when the target is exactly reached
GpContinue_Inclusive(char_len, target_chars) == char_len <= target_chars

\* the loop condition: char_len < target_chars
GpContinue(char_len, target_chars) == char_len < target_chars

\* lines 68-72: the drawn word is capitalized at the start of a sentence,
\* appended, counted, and the joined length recomputed
GpAppend(f, w) ==
    LET ws == Append(f.words, IF f.words_in_sentence = 0 THEN Capitalize(w) ELSE w)
    IN  [f EXCEPT !.words = ws,
                  !.words_in_sentence = @ + 1,
                  !.char_len = Len(Join(<<" ">>, ws))]

\* line 73: the sentence is complete
GpSentenceEnds(f) == f.words_in_sentence >= f.sentence_len

\* lines 75-77: a period is attached to the last word, the count reset and
\* the next sentence length set
GpEndSentence(f, next_len) ==
    [f EXCEPT !.words = [@ EXCEPT ![Len(@)] = @ \o <<".">>],
              !.words_in_sentence = 0,
              !.sentence_len = next_len]

\* mutant: the period is appended without looking at the end
GpParagraph_AlwaysPeriod(words) == Strip(Join(<<" ">>, words)) \o <<".">>

\* lines 79-83: the returned paragraph
GpParagraph(words) ==
    LET paragraph == Strip(Join(<<" ">>, words))
    IN  IF ~EndsWithPeriod(paragraph) THEN paragraph \o <<".">> ELSE paragraph

GpEntry ==
    /\ gp.pc = "entry"
    /\ \E e \in GpEnter(gp, rng) : gp' = e[1] /\ rng' = e[2]
    /\ UNCHANGED <<gt, dc, rm, mn>>

GpLoop ==
    /\ gp.pc = "loop"
    /\ GpContinue(gp.char_len, gp.target_chars)
    /\ \E c \in Choice(rng) :
          LET f == GpAppend(gp, c[1]) IN
          IF GpSentenceEnds(f)
          THEN \E d \in RandInt(c[2], 6, 20) :
                  gp' = GpEndSentence(f, d[1]) /\ rng' = d[2]
          ELSE gp' = f /\ rng' = c[2]
    /\ UNCHANGED <<gt, dc, rm, mn>>

GpExit ==
    /\ gp.pc = "loop"
    /\ ~GpContinue(gp.char_len, gp.target_chars)
    /\ gp' = [gp EXCEPT !.pc = "returned", !.result = GpParagraph(gp.words)]
    /\ UNCHANGED <<rng, gt, dc, rm, mn>>

---------------------------------------------------------------------------
(* distribute_chars(total_chars, paragraphs)                               *)

DcIdle == [pc |-> "idle", total_chars |-> 0, paragraphs |-> 0, result |-> <<>>]
DcCall(total_chars, paragraphs) ==
    [DcIdle EXCEPT !.pc = "entry", !.total_chars = total_chars,
                   !.paragraphs = paragraphs]

\* mutant: the bonus also goes to entry number remainder
DcBonus_Inclusive(i, remainder) == IF i <= remainder THEN 1 ELSE 0

\* entry i (0-based, as in range(paragraphs)) gets one more than base when
\* i < remainder
DcBonus(i, remainder) == IF i < remainder THEN 1 ELSE 0

DistributeChars(total_chars, paragraphs) ==
    IF paragraphs <= 0 THEN <<>>
    ELSE LET base == total_chars \div paragraphs
             remainder == total_chars % paragraphs
         IN  [k \in 1..paragraphs |-> base + DcBonus(k - 1, remainder)]

DcRun ==
    /\ dc.pc = "entry"
    /\ dc' = [dc EXCEPT !.pc = "returned",
                        !.result = DistributeChars(dc.total_chars, dc.paragraphs)]
    /\ UNCHANGED <<rng, gt, gp, rm, mn>>

---------------------------------------------------------------------------
(* textwrap.fill(text, width) with the defaults of TextWrapper, as called  *)
(* by render_markdown: whitespace is replaced by spaces, the text is cut   *)
(* into chunks (runs of spaces and runs of non-spaces), the chunks are     *)
(* packed into lines of at most width characters, a chunk longer than      *)
(* width is broken (break_long_words), whitespace at the start of a line   *)
(* (except the first) and at the end of a line is dropped.                 *)

\* _munge_whitespace
Munge(text) == [i \in 1..Len(text) |-> IF IsSpace(text[i]) THEN " " ELSE text[i]]

\* _split: maximal runs of spaces and of non-spaces
RECURSIVE SplitChunks(_)
SplitChunks(s) ==
    IF s = <<>> THEN <<>>
    ELSE LET sp == (s[1] = " ")
             n  == CHOOSE k \in 1..Len(s) :
                      /\ \A j \in 1..k : (s[j] = " ") = sp
                      /\ (k = Len(s) \/ (s[k + 1] = " ") # sp)
         IN  <<SubSeq(s, 1, n)>> \o SplitChunks(SubSeq(s, n + 1, Len(s)))

\* chunk.strip() == ''
IsBlank(chunk) == \A i \in 1..Len(chunk) : IsSpace(chunk[i])

\* the inner loop of _wrap_chunks: chunks are moved to the current line
\* while they fit
RECURSIVE TakeFitting(_, _, _, _)
TakeFitting(chunks, cur_line, cur_len, width) ==
    IF chunks # <<>> /\ cur_len + Len(Head(chunks)) <= width
    THEN TakeFitting(Tail(chunks), Append(cur_line, Head(chunks)),
                     cur_len + Len(Head(chunks)), width)
    ELSE [chunks |-> chunks, cur_line |-> cur_line, cur_len |-> cur_len]

\* mutant: a chunk is broken as soon as it does not fit the rest of the line
IsLongWord_RestOfLine(st, width) ==
    st.chunks # <<>> /\ Len(Head(st.chunks)) > width - st.cur_len

\* the next chunk is too big to fit on any line
IsLongWord(st, width) == st.chunks # <<>> /\ Len(Head(st.chunks)) > width

\* mutant: break_long_words off; a long chunk gets a line of its own
HandleLongWord_NoBreak(st, width) ==
    IF st.cur_line = <<>>
    THEN [st EXCEPT !.cur_line = <<Head(st.chunks)>>, !.chunks = Tail(@)]
    ELSE st

\* _handle_long_word with break_long_words: as much of the chunk as fits
\* goes onto the current line, the rest stays in the chunk list
HandleLongWord(st, width) ==
    LET space_left == IF width < 1 THEN 1 ELSE width - st.cur_len
        chunk == Head(st.chunks)
    IN  [st EXCEPT !.cur_line = Append(@, Prefix(chunk, space_left)),
                   !.chunks = <<Suffix(chunk, space_left)>> \o Tail(@)]

\* _wrap_chunks
RECURSIVE WrapChunks(_, _, _)
WrapChunks(chunks, lines, width) ==
    IF chunks = <<>> THEN lines
    ELSE LET c0  == IF IsBlank(Head(chunks)) /\ lines # <<>>
                    THEN Tail(chunks) ELSE chunks
             st1 == TakeFitting(c0, <<>>, 0, width)
             st2 == IF IsLongWord(st1, width) THEN HandleLongWord(st1, width)
                    ELSE st1
             cur == IF st2.cur_line # <<>> /\ IsBlank(st2.cur_line[Len(st2.cur_line)])
                    THEN SubSeq(st2.cur_line, 1, Len(st2.cur_line) - 1)
                    ELSE st2.cur_line
             out == IF cur # <<>> THEN Append(lines, Join(<<>>, cur)) ELSE lines
         IN  WrapChunks(st2.chunks, out, width)

\* textwrap.wrap(text, width): the list of lines
Wrap(text, width) == WrapChunks(SplitChunks(Munge(text)), <<>>, width)

\* textwrap.fill(text, width)
Fill(text, width) == Join(<<"\n">>, Wrap(text, width))

---------------------------------------------------------------------------
(* render_markdown(title, paragraphs, max_line_len)                        *)

RmIdle == [pc |-> "idle", title |-> <<>>, paragraphs |-> <<>>,
           max_line_len |-> 1, parts |-> <<>>, result |-> <<>>]
RmCall(title, paragraphs, max_line_len) ==
    [RmIdle EXCEPT !.pc = "entry", !.title = title, !.paragraphs = paragraphs,
                   !.max_line_len = max_line_len]

\* lines 95-97: the heading and its blank line
RmHeading(title) ==
    IF title # <<>> THEN << <<"#", " ">> \o title, <<>> >> ELSE <<>>

\* lines 98-101: each paragraph wrapped, followed by a blank entry
RECURSIVE RmBody(_, _)
RmBody(paragraphs, max_line_len) ==
    IF paragraphs = <<>> THEN <<>>
    ELSE << Fill(Head(paragraphs), max_line_len), <<>> >>
         \o RmBody(Tail(paragraphs), max_line_len)

\* the parts assembled by lines 94-101
RmParts(title, paragraphs, max_line_len) ==
    RmHeading(title) \o RmBody(paragraphs, max_line_len)

\* mutant: nothing is removed
RmPop_None(parts) == parts

\* lines 103-104: the trailing blank entry is removed
RmPop(parts) ==
    IF parts # <<>> /\ parts[Len(parts)] = <<>>
    THEN SubSeq(parts, 1, Len(parts) - 1) ELSE parts

RenderMarkdown(title, paragraphs, max_line_len) ==
    Join(<<"\n">>, RmPop(RmParts(title, paragraphs, max_line_len)))

RmRun ==
    /\ rm.pc = "entry"
    /\ rm' = [rm EXCEPT !.pc = "returned",
                 !.parts = RmParts(rm.title, rm.paragraphs, rm.max_line_len),
                 !.result = RenderMarkdown(rm.title, rm.paragraphs, rm.max_line_len)]
    /\ UNCHANGED <<rng, gt, gp, dc, mn>>

---------------------------------------------------------------------------
(* main.  The settings are loaded; the seed is <<>> for None and <<k>> for *)
(* the integer k.  The program is run twice on the same settings: the      *)
(* Markdown written by the first run is kept in first_md.                  *)

DEFAULT_SETTINGS ==
    [characters |-> 1000, paragraphs |-> 3, max_line_length |-> 80,
     include_title |-> TRUE, title_characters |-> 40, seed |-> <<>>]

MnIdle == [pc |-> "idle", settings |-> DEFAULT_SETTINGS, run |-> 1,
           first_md |-> <<>>, total_chars |-> 0, distribution |-> <<>>,
           paragraphs_text |-> <<>>, title_text |-> <<>>, md |-> <<>>]
MnCall(settings) == [MnIdle EXCEPT !.pc = "start", !.settings = settings]

\* mutant: the seed of the settings is ignored
MnRandom_Unseeded(seed) == {Random(s) : s \in 0..MaxSeed}

\* line 113: random.Random(settings.get("seed")); with None the generator
\* is seeded from the system, with any seed
MnRandom(seed) ==
    IF seed = <<>> THEN {Random(s) : s \in 0..MaxSeed} ELSE {Random(seed[1])}

\* mutant: no fallback
MnFallback_None(total_chars, paragraphs) == total_chars

\* lines 123-125: the minimum-budget fallback
MnFallback(total_chars, paragraphs) ==
    IF total_chars < paragraphs * 20
    THEN Max(total_chars, paragraphs * 20)
    ELSE total_chars

\* lines 112-127
MnStart ==
    /\ mn.pc = "start"
    /\ \E r \in MnRandom(mn.settings.seed) : rng' = r
    /\ LET total_chars == MnFallback(mn.settings.characters, mn.settings.paragraphs)
       IN  mn' = [mn EXCEPT !.pc = "paragraphs",
                     !.total_chars = total_chars,
                     !.distribution = DistributeChars(total_chars, mn.settings.paragraphs),
                     !.paragraphs_text = <<>>]
    /\ UNCHANGED <<gt, gp, dc, rm>>

\* line 128: gen_paragraph is called for the next budget of the distribution
MnCallParagraph ==
    /\ mn.pc = "paragraphs"
    /\ gp.pc = "idle"
    /\ Len(mn.paragraphs_text) < Len(mn.distribution)
    /\ gp' = GpCall(mn.distribution[Len(mn.paragraphs_text) + 1])
    /\ UNCHANGED <<rng, gt, dc, rm, mn>>

\* line 128: the paragraph returned is appended to paragraphs_text
MnParagraphReturned ==
    /\ mn.pc = "paragraphs"
    /\ gp.pc = "returned"
    /\ mn' = [mn EXCEPT !.paragraphs_text = Append(@, gp.result)]
    /\ gp' = GpIdle
    /\ UNCHANGED <<rng, gt, dc, rm>>

\* line 129: gen_title is called after the last paragraph
MnCallTitle ==
    /\ mn.pc = "paragraphs"
    /\ gp.pc = "idle"
    /\ Len(mn.paragraphs_text) = Len(mn.distribution)
    /\ mn.settings.include_title
    /\ gt' = GtCall(mn.settings.title_characters)
    /\ mn' = [mn EXCEPT !.pc = "title"]
    /\ UNCHANGED <<rng, gp, dc, rm>>

\* line 129: no title
MnSkipTitle ==
    /\ mn.pc = "paragraphs"
    /\ gp.pc = "idle"
    /\ Len(mn.paragraphs_text) = Len(mn.distribution)
    /\ ~mn.settings.include_title
    /\ mn' = [mn EXCEPT !.pc = "render", !.title_text = <<>>]
    /\ UNCHANGED <<rng, gt, gp, dc, rm>>

MnTitleReturned ==
    /\ mn.pc = "title"
    /\ gt.pc = "returned"
    /\ mn' = [mn EXCEPT !.pc = "render", !.title_text = gt.result]
    /\ gt' = GtIdle
    /\ UNCHANGED <<rng, gp, dc, rm>>

\* lines 131-134: the document is rendered and written
MnRender ==
    /\ mn.pc = "render"
    /\ mn' = [mn EXCEPT !.pc = "done",
                 !.md = RenderMarkdown(mn.title_text, mn.paragraphs_text,
                                       mn.settings.max_line_length)]
    /\ UNCHANGED <<rng, gt, gp, dc, rm>>

\* the program is run a second time on the same settings
MnRerun ==
    /\ mn.pc = "done"
    /\ mn.run = 1
    /\ mn' = [MnCall(mn.settings) EXCEPT !.run = 2, !.first_md = mn.md]
    /\ UNCHANGED <<rng, gt, gp, dc, rm>>

---------------------------------------------------------------------------
(* Specifications: one per entry point, its inputs drawn from bounded sets *)

\* the strings over {"a", " "} of length at most n
RECURSIVE Strings(_)
Strings(n) ==
    IF n = 0 THEN {<<>>}
    ELSE LET shorter == Strings(n - 1)
         IN  shorter \cup {Append(s, c) : s \in shorter, c \in {"a", " "}}

\* the lists of at most n strings over {"a", " "} that have at most budget
\* characters together
RECURSIVE ParagraphLists(_, _)
ParagraphLists(n, budget) ==
    IF n = 0 THEN {<<>>}
    ELSE {<<>>} \cup
         UNION {{<<s>> \o q : q \in ParagraphLists(n - 1, budget - Len(s))}
                   : s \in Strings(budget)}

ParagraphTargets == (-1..MaxSmallTarget) \cup {LongTarget}

SettingsSet ==
    [characters : -1..MaxCharacters,
     paragraphs : -1..MaxSettingsParagraphs,
     max_line_length : {5 * MaxLineLen, 20 * MaxLineLen},
     include_title : BOOLEAN,
     title_characters : {0, MaxSettingsTitle},
     seed : {<<>>} \cup {<<s>> : s \in 0..MaxSeed}]

\* distribute_chars called on its own
InitDistribute ==
    /\ \E t \in 0..MaxTotalChars, p \in -1..MaxParagraphs : dc = DcCall(t, p)
    /\ rng = UnknownRng /\ gt = GtIdle /\ gp = GpIdle /\ rm = RmIdle /\ mn = MnIdle
NextDistribute == DcRun
SpecDistribute == InitDistribute /\ [][NextDistribute]_vars

\* gen_title called on its own with a generator in an unknown state
InitTitle ==
    /\ \E n \in -1..MaxTitleChars : gt = GtCall(n)
    /\ rng = UnknownRng /\ gp = GpIdle /\ dc = DcIdle /\ rm = RmIdle /\ mn = MnIdle
NextTitle == GtEntry \/ GtLoop \/ GtExit
SpecTitle == InitTitle /\ [][NextTitle]_vars
SpecTitleFair == SpecTitle /\ WF_vars(NextTitle)

\* gen_paragraph called on its own with a generator in an unknown state or
\* freshly seeded
InitParagraph ==
    /\ \E n \in ParagraphTargets : gp = GpCall(n)
    /\ rng \in {UnknownRng} \cup {Random(s) : s \in 0..MaxSeed} /\ gt = GtIdle /\ dc = DcIdle /\ rm = RmIdle /\ mn = MnIdle
NextParagraph == GpEntry \/ GpLoop \/ GpExit
SpecParagraph == InitParagraph /\ [][NextParagraph]_vars
SpecParagraphFair == SpecParagraph /\ WF_vars(NextParagraph)

\* render_markdown called on its own
InitRender ==
    /\ \E t \in Strings(1), ps \in ParagraphLists(MaxRenderParagraphs, MaxTextLen),
          w \in 1..MaxLineLen : rm = RmCall(t, ps, w)
    /\ rng = UnknownRng /\ gt = GtIdle /\ gp = GpIdle /\ dc = DcIdle /\ mn = MnIdle
NextRender == RmRun
SpecRender == InitRender /\ [][NextRender]_vars

\* main, run twice on the same settings
InitMain ==
    /\ \E s \in SettingsSet : mn = MnCall(s)
    /\ rng = UnknownRng /\ gt = GtIdle /\ gp = GpIdle /\ dc = DcIdle /\ rm = RmIdle
NextMain ==
    \/ MnStart \/ MnCallParagraph \/ MnParagraphReturned \/ MnCallTitle
    \/ MnSkipTitle \/ MnTitleReturned \/ MnRender \/ MnRerun
    \/ GpEntry \/ GpLoop \/ GpExit \/ GtEntry \/ GtLoop \/ GtExit
SpecMain == InitMain /\ [][NextMain]_vars

---------------------------------------------------------------------------
(* Properties.                                                             *)

Last(q) == q[Len(q)]
Front(q) == SubSeq(q, 1, Len(q) - 1)

\* C1: distribute_chars(total_chars, paragraphs) with total_chars >= 0 and
\* paragraphs > 0 returns exactly `paragraphs` non-negative integers that sum
\* to total_chars, entry i (0-based) being total_chars div paragraphs plus 1
\* when i < total_chars mod paragraphs and plus 0 otherwise; with
\* paragraphs = 0 it returns the empty sequence.
C1_Distribution ==
    dc.pc = "returned" =>
        /\ (dc.paragraphs > 0 /\ dc.total_chars >= 0) =>
              /\ Len(dc.result) = dc.paragraphs
              /\ \A k \in 1..Len(dc.result) : dc.result[k] >= 0
              /\ Sum(dc.result) = dc.total_chars
              /\ \A k \in 1..Len(dc.result) :
                    dc.result[k] = (dc.total_chars \div dc.paragraphs)
                        + (IF k - 1 < dc.total_chars % dc.paragraphs THEN 1 ELSE 0)
              /\ \A j, k \in 1..Len(dc.result) :
                    /\ dc.result[j] - dc.result[k] \in {-1, 0, 1}
                    /\ j < k => dc.result[j] >= dc.result[k]
        /\ dc.paragraphs = 0 => dc.result = <<>>

C1_Witness ==
    /\ dc.pc = "returned"
    /\ dc.paragraphs = 5
    /\ dc.total_chars = 12
    /\ dc.result = <<3, 3, 2, 2, 2>>

\* C2: with an integer seed, the second run of main on the same settings
\* writes the same Markdown as the first run.
C2_Reproducible ==
    (mn.pc = "done" /\ mn.run = 2 /\ mn.settings.seed # <<>>) => mn.md = mn.first_md

C2_Witness ==
    /\ mn.pc = "done"
    /\ mn.run = 2
    /\ mn.settings.seed # <<>>
    /\ Len(mn.paragraphs_text) = 2
    /\ mn.title_text # <<>>
    /\ mn.md = mn.first_md
    /\ rng.used > 10

\* C3: gen_paragraph terminates, and with target_chars > 0 the paragraph it
\* returns has at least target_chars characters, ends with a period and
\* does not end with two periods.
C3_ParagraphShape ==
    /\ <>(gp.pc = "returned")
    /\ [](  (gp.pc = "returned" /\ gp.target_chars > 0) =>
               /\ Len(gp.result) >= gp.target_chars
               /\ Last(gp.result) = "."
               /\ Len(gp.result) >= 2
               /\ gp.result[Len(gp.result) - 1] # "." )

\* the last word drawn ended a sentence inside the loop
C3_Witness ==
    /\ gp.pc = "returned"
    /\ gp.target_chars > 0
    /\ gp.words_in_sentence = 0
    /\ Len(gp.words) >= 8
    /\ Last(gp.result) = "."

\* the first k words of the paragraph, as text ending with a period
PeriodPrefix(words, k) ==
    LET t == Join(<<" ">>, SubSeq(words, 1, k))
    IN  IF EndsWithPeriod(t) THEN t ELSE t \o <<".">>

\* C4 as stated: no shorter whole-word prefix followed by a period already
\* has target_chars characters or more, so the paragraph has the smallest
\* such length.
C4_SmallestWithPeriod ==
    (gp.pc = "returned" /\ gp.target_chars > 0) =>
        /\ gp.result = PeriodPrefix(gp.words, Len(gp.words))
        /\ \A k \in 1..(Len(gp.words) - 1) :
              Len(PeriodPrefix(gp.words, k)) < gp.target_chars

\* C4 amended: the length is the smallest when the final period is not
\* counted; every shorter whole-word prefix has, without a period at its
\* end, fewer than target_chars characters, and the paragraph without its
\* final period has at least target_chars characters.
C4_SmallestWithoutPeriod ==
    (gp.pc = "returned" /\ gp.target_chars > 0) =>
        /\ gp.result = PeriodPrefix(gp.words, Len(gp.words))
        /\ Len(gp.result) - 1 >= gp.target_chars
        /\ \A k \in 1..(Len(gp.words) - 1) :
              Len(PeriodPrefix(gp.words, k)) - 1 < gp.target_chars

\* a shorter prefix with its period has exactly target_chars characters
C4_Witness ==
    /\ gp.pc = "returned"
    /\ gp.target_chars > 0
    /\ \E k \in 1..(Len(gp.words) - 1) :
          Len(PeriodPrefix(gp.words, k)) = gp.target_chars

\* the lines of a rendered document that come from paragraphs
BodyLines(title, doc) ==
    IF title # <<>> THEN Tail(SplitLines(doc)) ELSE SplitLines(doc)

\* the words of all the paragraphs, in order
RECURSIVE AllWords(_)
AllWords(paragraphs) ==
    IF paragraphs = <<>> THEN <<>>
    ELSE Words(Head(paragraphs)) \o AllWords(Tail(paragraphs))

\* C5: no line of the rendered document that comes from a wrapped paragraph
\* is longer than max_line_len.
C5_LineLength ==
    rm.pc = "returned" =>
        \A i \in 1..Len(BodyLines(rm.title, rm.result)) :
            Len(BodyLines(rm.title, rm.result)[i]) <= rm.max_line_len

\* a paragraph holds a word longer than the line
C5_Witness ==
    /\ rm.pc = "returned"
    /\ rm.title # <<>>
    /\ Len(rm.paragraphs) = 2
    /\ \E i \in 1..Len(AllWords(rm.paragraphs)) :
          Len(AllWords(rm.paragraphs)[i]) > rm.max_line_len
    /\ Len(BodyLines(rm.title, rm.result)) >= 3

\* C6 as stated: every word of every paragraph is whole on one output line,
\* also when max_line_len is smaller than the word.
C6_WordsWhole ==
    rm.pc = "returned" =>
        Words(Join(<<" ">>, BodyLines(rm.title, rm.result))) = AllWords(rm.paragraphs)

\* out is pw with only the words longer than width cut into pieces
RECURSIVE CutsLongWordsOnly(_, _, _)
CutsLongWordsOnly(pw, out, width) ==
    IF pw = <<>> THEN out = <<>>
    ELSE /\ out # <<>>
         /\ IF Len(Head(pw)) <= width
            THEN /\ Head(out) = Head(pw)
                 /\ CutsLongWordsOnly(Tail(pw), Tail(out), width)
            ELSE /\ Len(Head(out)) < Len(Head(pw))
                 /\ Head(out) = Prefix(Head(pw), Len(Head(out)))
                 /\ CutsLongWordsOnly(<<Suffix(Head(pw), Len(Head(out)))>> \o Tail(pw),
                                      Tail(out), width)

\* C6 amended: every word of at most max_line_len characters is whole on
\* one output line; only a word longer than max_line_len is cut, into
\* consecutive pieces.
C6_ShortWordsWhole ==
    rm.pc = "returned" =>
        CutsLongWordsOnly(AllWords(rm.paragraphs),
                          Words(Join(<<" ">>, BodyLines(rm.title, rm.result))),
                          rm.max_line_len)

\* a paragraph with a long word and a short word, wrapped over several lines
C6_Witness ==
    /\ rm.pc = "returned"
    /\ \E i, j \in 1..Len(AllWords(rm.paragraphs)) :
          /\ Len(AllWords(rm.paragraphs)[i]) > rm.max_line_len
          /\ Len(AllWords(rm.paragraphs)[j]) <= rm.max_line_len
    /\ Len(BodyLines(rm.title, rm.result)) >= 2
    /\ rm.max_line_len >= 2

\* a document ends with a blank line when its last line holds no character
\* other than spaces (the empty document has no line)
EndsWithBlankLine(doc) == doc # <<>> /\ IsBlank(Last(SplitLines(doc)))

\* C7 as stated: for any title and any paragraphs, empty ones included, the
\* document does not end with a blank line.
C7_NoTrailingBlank ==
    rm.pc = "returned" => ~EndsWithBlankLine(rm.result)

\* C7 amended: when the last paragraph holds a character other than a space,
\* the document does not end with a blank line and its last line is the last
\* line of that paragraph's wrapped text; with no paragraphs and a title the
\* document is the heading line; exactly one trailing blank entry is removed
\* from the assembled parts.
C7_NoTrailingBlankAfterText ==
    rm.pc = "returned" =>
        /\ (rm.paragraphs # <<>> /\ ~IsBlank(Last(rm.paragraphs))) =>
              /\ ~EndsWithBlankLine(rm.result)
              /\ Last(SplitLines(rm.result))
                    = Last(Wrap(Last(rm.paragraphs), rm.max_line_len))
        /\ (rm.paragraphs = <<>> /\ rm.title # <<>>) =>
              rm.result = <<"#", " ">> \o rm.title
        /\ rm.parts # <<>> =>
              /\ Last(rm.parts) = <<>>
              /\ rm.result = Join(<<"\n">>, Front(rm.parts))

\* an empty paragraph followed by a paragraph with text, under a title
C7_Witness ==
    /\ rm.pc = "returned"
    /\ rm.title # <<>>
    /\ Len(rm.paragraphs) = 2
    /\ rm.paragraphs[1] = <<>>
    /\ ~IsBlank(rm.paragraphs[2])
    /\ ~EndsWithBlankLine(rm.result)

\* the capitalized first letters of the pool words
PoolInitials == {Upper(LOREM_WORDS[i][1]) : i \in 1..Len(LOREM_WORDS)}

\* C8: gen_title terminates; with char_count > 0 the title has between 1
\* and char_count characters, starts with the capitalized first letter of a
\* pool word, has no white space at either end, no line break and no
\* period, and is the first char_count characters of the space-joined words
\* with trailing white space stripped; with char_count <= 0 it is empty.
C8_TitleShape ==
    /\ <>(gt.pc = "returned")
    /\ [](  gt.pc = "returned" =>
               /\ gt.char_count > 0 =>
                     /\ Len(gt.result) >= 1
                     /\ Len(gt.result) <= gt.char_count
                     /\ gt.result[1] \in PoolInitials
                     /\ ~IsSpace(gt.result[1])
                     /\ ~IsSpace(Last(gt.result))
                     /\ \A i \in 1..Len(gt.result) : gt.result[i] \notin {".", "\n"}
                     /\ gt.result = RStrip(Prefix(Join(<<" ">>, gt.words), gt.char_count))
               /\ gt.char_count <= 0 => gt.result = <<>> )

\* the joined words were cut right after a space
C8_Witness ==
    /\ gt.pc = "returned"
    /\ gt.char_count > 0
    /\ Len(Join(<<" ">>, gt.words)) > gt.char_count
    /\ Len(gt.result) < gt.char_count
    /\ Len(gt.words) >= 2

\* C9: gen_paragraph with target_chars <= 0 returns the empty string and
\* leaves the generator as it was: the next draw is the one an untouched
\* generator gives.
C9_NoDrawConsumed ==
    [][ (gp.pc = "entry" /\ gp.target_chars <= 0) =>
            /\ gp'.pc = "returned"
            /\ gp'.result = <<>>
            /\ rng' = rng
            /\ Choice(rng') = Choice(rng)
            /\ RandInt(rng', 8, 16) = RandInt(rng, 8, 16) ]_vars

C9_Witness ==
    /\ gp.pc = "returned"
    /\ gp.target_chars < 0
    /\ gp.result = <<>>
    /\ rng.known
    /\ rng.used = 0

\* C10: in main with paragraphs > 0 the total handed to distribute_chars is
\* max(characters, paragraphs * 20), it is the configured characters when
\* these are at least paragraphs * 20, and every budget handed to
\* gen_paragraph is at least 20.
C10_MinimumBudget ==
    (mn.pc \in {"paragraphs", "title", "render", "done"} /\ mn.settings.paragraphs > 0) =>
        /\ mn.total_chars = Max(mn.settings.characters, mn.settings.paragraphs * 20)
        /\ mn.settings.characters >= mn.settings.paragraphs * 20 =>
              mn.total_chars = mn.settings.characters
        /\ Len(mn.distribution) = mn.settings.paragraphs
        /\ \A k \in 1..Len(mn.distribution) : mn.distribution[k] >= 20
        /\ gp.pc # "idle" => gp.target_chars >= 20

\* the example of the fallback: 5 paragraphs and 10 characters give 100
C10_Witness ==
    /\ mn.pc = "paragraphs"
    /\ mn.settings.paragraphs = 5
    /\ mn.settings.characters = 10
    /\ mn.total_chars = 100
    /\ gp.pc = "entry"
    /\ gp.target_chars = 20

====
